---- MODULE Spec2Model ----
(***************************************************************************)
(* Event Management API: the handlers of src/main.py (final revision) and  *)
(* of src/app/main.py (earlier revision) over the document store.          *)
(*                                                                         *)
(* A string is a sequence of one-character strings.  An ObjectId is its    *)
(* 12 bytes.  A collection is a function from ObjectId to document.        *)
(***************************************************************************)
EXTENDS Integers, Sequences, FiniteSets, TLC

VARIABLES events, venues, attendees, bookings,
          event_posters, promo_videos, venue_photos,
          next_oid,      \* how many identifiers the store has generated
          store_faulty,  \* whether insert_one may yield no inserted_id
          tasks,         \* requests in flight (interleaved specification)
          req,           \* the request being answered, NoReq when idle
          resp           \* its response, NoResp when idle

colls == <<events, venues, attendees, bookings,
           event_posters, promo_videos, venue_photos>>
vars == <<events, venues, attendees, bookings,
          event_posters, promo_videos, venue_photos,
          next_oid, store_faulty, tasks, req, resp>>

----------------------------------------------------------------------------
(* Bounds *)

MaxOids == 4     \* identifiers the store generates in one behaviour
MaxTasks == 1    \* requests in flight at once (interleaved specification)

----------------------------------------------------------------------------
(* bson.ObjectId: parsing and canonical string form *)

None == "None"   \* a missing optional text field
InvalidId == <<>>  \* ObjectId raised bson.errors.InvalidId: no bytes
NoId == <<>>       \* an inserted_id of None

HexDigits == <<"0","1","2","3","4","5","6","7","8","9","a","b","c","d","e","f">>
UpperHex == <<"0","1","2","3","4","5","6","7","8","9","A","B","C","D","E","F">>

IsHex(c) == \E i \in 1..16 : HexDigits[i] = c \/ UpperHex[i] = c

HexVal(c) == (CHOOSE i \in 1..16 : HexDigits[i] = c \/ UpperHex[i] = c) - 1

\* faulty variant: ObjectId that checks the length only
ObjectId_length_only(s) ==
    IF Len(s) = 24
    THEN [i \in 1..12 |->
            IF IsHex(s[2*i - 1]) /\ IsHex(s[2*i])
            THEN 16 * HexVal(s[2*i - 1]) + HexVal(s[2*i])
            ELSE 0]
    ELSE InvalidId

\* ObjectId(id_str): the 12 bytes of a 24-character hex string, or InvalidId
ObjectId(s) ==
    IF Len(s) = 24 /\ \A i \in 1..24 : IsHex(s[i])
    THEN [i \in 1..12 |-> 16 * HexVal(s[2*i - 1]) + HexVal(s[2*i])]
    ELSE InvalidId

\* str(obj_id): 24 lower-case hex digits
Str(oid) ==
    [i \in 1..24 |->
        IF i % 2 = 1 THEN HexDigits[(oid[(i + 1) \div 2] \div 16) + 1]
                     ELSE HexDigits[(oid[i \div 2] % 16) + 1]]

\* the n-th identifier the store generates
GenOid(n) == [i \in 1..12 |-> IF i = 12 THEN 160 + n ELSE 0]

\* the upper-case spelling of a string
Upper(s) ==
    [i \in 1..Len(s) |->
        IF \E k \in 1..16 : HexDigits[k] = s[i]
        THEN UpperHex[CHOOSE k \in 1..16 : HexDigits[k] = s[i]]
        ELSE s[i]]

\* identifier strings a request may carry
WellFormedIds == {Str(GenOid(n)) : n \in 1..MaxOids} \cup {Upper(Str(GenOid(1)))}
MalformedIds == { [Str(GenOid(1)) EXCEPT ![24] = "g"], <<"a","1">> }
RawIds == WellFormedIds \cup MalformedIds

----------------------------------------------------------------------------
(* Request payloads (pydantic models) *)

EventPayloads ==
    [name : {"Launch"}, description : {"..."}, date : {"2025-01-01"},
     venue_id : RawIds, max_attendees : {150}]
VenuePayloads ==
    [name : {"Hall A", "Hall B"}, address : {"1 Main St"}, capacity : {200}]
AttendeePayloads ==
    [name : {"Jo"}, email : {"jo@x.com"}, phone : {None, "555"}]
BookingPayloads ==
    [event_id : RawIds, attendee_id : RawIds, ticket_type : {"GA"},
     quantity : {2}]

----------------------------------------------------------------------------
(* The document store *)

Empty == <<>>

\* find_one({"_id": obj_id}) found a document
Has(collection, obj_id) == obj_id \in DOMAIN collection

\* insert_one: the collection with doc under a newly generated identifier
insert_one(collection, doc) == collection @@ (GenOid(next_oid + 1) :> doc)

\* what insert_one reports as inserted_id.  pymongo always reports the
\* identifier it generated; a store that may report none (SpecFault) is
\* taken to have stored nothing when it does.
InsertedIds ==
    IF store_faulty THEN {GenOid(next_oid + 1), NoId} ELSE {GenOid(next_oid + 1)}

\* faulty variant: update_one with upsert=True
update_one_upsert(collection, obj_id, update_doc) ==
    IF obj_id \in DOMAIN collection
    THEN [collection EXCEPT ![obj_id] = update_doc @@ collection[obj_id]]
    ELSE collection @@ (obj_id :> update_doc)

\* update_one with $set: the fields of update_doc overwrite those of the match
update_one(collection, obj_id, update_doc) ==
    IF obj_id \in DOMAIN collection
    THEN [collection EXCEPT ![obj_id] = update_doc @@ collection[obj_id]]
    ELSE collection

delete_one(collection, obj_id) ==
    [k \in DOMAIN collection \ {obj_id} |-> collection[k]]

----------------------------------------------------------------------------
(* Responses *)

NoRid == <<>>              \* the request addresses no identifier
NoPayload == [none |-> TRUE]  \* the request has no body

Request(op, id, payload) == [op |-> op, id |-> id, payload |-> payload]

NoReq == Request("none", NoRid, NoPayload)
NoTasks == <<>>
NoResp == [status |-> 0, body |-> [detail |-> ""]]

\* raise HTTPException(status_code=..., detail=...)
HTTPException(status_code, detail) ==
    [status |-> status_code, body |-> [detail |-> detail]]

\* return {...}
Ok(body) == [status |-> 200, body |-> body]

\* f"Invalid {name} ID format"
InvalidFormat(name) ==
    CASE name = "Event" -> "Invalid Event ID format"
      [] name = "Venue" -> "Invalid Venue ID format"
      [] name = "Attendee" -> "Invalid Attendee ID format"

\* f"{name} not found"
NotFound(name) ==
    CASE name = "Event" -> "Event not found"
      [] name = "Venue" -> "Venue not found"
      [] name = "Attendee" -> "Attendee not found"

\* str(result.inserted_id)
StrId(inserted_id) ==
    IF inserted_id = NoId THEN <<"N","o","n","e">> ELSE Str(inserted_id)

\* the document as returned by get: "_id" rendered as a string
Rendered(collection, obj_id) == ("_id" :> Str(obj_id)) @@ collection[obj_id]

\* faulty variant: validate_object_id whose messages leave the entity out
validate_object_id_unnamed(id_str, collection, name) ==
    LET obj_id == ObjectId(id_str) IN
    IF obj_id = InvalidId
    THEN [raised |-> TRUE, status |-> 400, detail |-> "Invalid ID format"]
    ELSE IF ~Has(collection, obj_id)
    THEN [raised |-> TRUE, status |-> 400, detail |-> "Not found"]
    ELSE [raised |-> FALSE, obj_id |-> obj_id]

\* faulty variant: validate_object_id without the existence check
validate_object_id_no_lookup(id_str, collection, name) ==
    LET obj_id == ObjectId(id_str) IN
    IF obj_id = InvalidId
    THEN [raised |-> TRUE, status |-> 400, detail |-> InvalidFormat(name)]
    ELSE [raised |-> FALSE, obj_id |-> obj_id]

\* validate_object_id: the ObjectId, or the HTTPException it raises
validate_object_id(id_str, collection, name) ==
    LET obj_id == ObjectId(id_str) IN
    IF obj_id = InvalidId
    THEN [raised |-> TRUE, status |-> 400, detail |-> InvalidFormat(name)]
    ELSE IF ~Has(collection, obj_id)
    THEN [raised |-> TRUE, status |-> 400, detail |-> NotFound(name)]
    ELSE [raised |-> FALSE, obj_id |-> obj_id]

----------------------------------------------------------------------------
(* src/main.py: Event handlers, each run start to end without interleaving *)

\* faulty variant: the event stored with venue_id as received
event_doc_raw(event, venue_obj_id) == event

\* event_doc = event.dict(); event_doc["venue_id"] = str(venue_obj_id)
event_doc(event, venue_obj_id) == [event EXCEPT !.venue_id = Str(venue_obj_id)]

create_event(event) ==
    LET v == validate_object_id(event.venue_id, venues, "Venue") IN
    /\ req = NoReq
    /\ req' = Request("create_event", NoRid, event)
    /\ IF v.raised
       THEN /\ resp' = HTTPException(v.status, v.detail)
            /\ UNCHANGED <<events, next_oid>>
       ELSE /\ next_oid < MaxOids
            /\ \E inserted_id \in InsertedIds :
                 IF inserted_id = NoId
                 THEN /\ resp' = HTTPException(500,
                                               "Failed to create event")
                      /\ UNCHANGED <<events, next_oid>>
                 ELSE /\ events' = insert_one(events, event_doc(event, v.obj_id))
                      /\ next_oid' = next_oid + 1
                      /\ resp' = Ok([message |-> "Event created",
                                     id |-> StrId(inserted_id)])
    /\ UNCHANGED <<venues, attendees, bookings, event_posters, promo_videos,
                   venue_photos, store_faulty, tasks>>

\* what get_event answers in the current state
get_event_response(event_id) ==
    LET obj_id == ObjectId(event_id) IN
    IF obj_id = InvalidId
    THEN HTTPException(400, "Invalid event ID")
    ELSE IF ~Has(events, obj_id)
    THEN HTTPException(404, "Event not found")
    ELSE Ok(Rendered(events, obj_id))

get_event(event_id) ==
    /\ req = NoReq
    /\ req' = Request("get_event", event_id, NoPayload)
    /\ resp' = get_event_response(event_id)
    /\ UNCHANGED <<colls, next_oid, store_faulty, tasks>>

\* faulty variant: the update applied with venue_id as received
event_update_doc_raw(event, venue_obj_id) == event

\* update_doc = event.dict(); update_doc["venue_id"] = str(venue_obj_id)
event_update_doc(event, venue_obj_id) ==
    [event EXCEPT !.venue_id = Str(venue_obj_id)]

update_event(event_id, event) ==
    LET event_obj_id == ObjectId(event_id)
        v == validate_object_id(event.venue_id, venues, "Venue")
    IN
    /\ req = NoReq
    /\ req' = Request("update_event", event_id, event)
    /\ IF event_obj_id = InvalidId
       THEN /\ resp' = HTTPException(400,
                                     "Invalid event ID")
            /\ UNCHANGED events
       ELSE IF v.raised
       THEN /\ resp' = HTTPException(v.status, v.detail)
            /\ UNCHANGED events
       ELSE /\ events' = update_one(events, event_obj_id,
                                     event_update_doc(event, v.obj_id))
            /\ resp' = IF ~Has(events, event_obj_id)  \* matched_count == 0
                       THEN HTTPException(404,
                                          "Event not found")
                       ELSE Ok([message |-> "Event updated"])
    /\ UNCHANGED <<venues, attendees, bookings, event_posters, promo_videos,
                   venue_photos, next_oid, store_faulty, tasks>>

delete_event(event_id) ==
    LET obj_id == ObjectId(event_id) IN
    /\ req = NoReq
    /\ req' = Request("delete_event", event_id, NoPayload)
    /\ IF obj_id = InvalidId
       THEN /\ resp' = HTTPException(400,
                                     "Invalid event ID")
            /\ UNCHANGED events
       ELSE /\ events' = delete_one(events, obj_id)
            /\ resp' = IF ~Has(events, obj_id)  \* deleted_count == 0
                       THEN HTTPException(404,
                                          "Event not found")
                       ELSE Ok([message |-> "Event deleted"])
    /\ UNCHANGED <<venues, attendees, bookings, event_posters, promo_videos,
                   venue_photos, next_oid, store_faulty, tasks>>

----------------------------------------------------------------------------
(* src/main.py: Venue handlers *)

create_venue(venue) ==
    /\ req = NoReq
    /\ req' = Request("create_venue", NoRid, venue)
    /\ next_oid < MaxOids
    /\ \E inserted_id \in InsertedIds :
         IF inserted_id = NoId
         THEN /\ resp' = HTTPException(500,
                                       "Failed to create venue")
              /\ UNCHANGED <<venues, next_oid>>
         ELSE /\ venues' = insert_one(venues, venue)
              /\ next_oid' = next_oid + 1
              /\ resp' = Ok([message |-> "Venue created",
                             id |-> StrId(inserted_id)])
    /\ UNCHANGED <<events, attendees, bookings, event_posters, promo_videos,
                   venue_photos, store_faulty, tasks>>

get_venue(venue_id) ==
    LET obj_id == ObjectId(venue_id) IN
    /\ req = NoReq
    /\ req' = Request("get_venue", venue_id, NoPayload)
    /\ resp' = IF obj_id = InvalidId
               THEN HTTPException(400, "Invalid venue ID")
               ELSE IF ~Has(venues, obj_id)
               THEN HTTPException(404, "Venue not found")
               ELSE Ok(Rendered(venues, obj_id))
    /\ UNCHANGED <<colls, next_oid, store_faulty, tasks>>

update_venue(venue_id, venue) ==
    LET obj_id == ObjectId(venue_id) IN
    /\ req = NoReq
    /\ req' = Request("update_venue", venue_id, venue)
    /\ IF obj_id = InvalidId
       THEN /\ resp' = HTTPException(400,
                                     "Invalid venue ID")
            /\ UNCHANGED venues
       ELSE /\ venues' = update_one(venues, obj_id, venue)
            /\ resp' = IF ~Has(venues, obj_id)  \* matched_count == 0
                       THEN HTTPException(404,
                                          "Venue not found")
                       ELSE Ok([message |-> "Venue updated"])
    /\ UNCHANGED <<events, attendees, bookings, event_posters, promo_videos,
                   venue_photos, next_oid, store_faulty, tasks>>

\* faulty variant: delete_venue that also deletes the events held at the venue
delete_venue_cascade(venue_id) ==
    LET obj_id == ObjectId(venue_id) IN
    /\ req = NoReq
    /\ req' = Request("delete_venue", venue_id, NoPayload)
    /\ IF obj_id = InvalidId
       THEN /\ resp' = HTTPException(400, "Invalid venue ID")
            /\ UNCHANGED <<venues, events>>
       ELSE /\ venues' = delete_one(venues, obj_id)
            /\ events' = [k \in {e \in DOMAIN events :
                                   events[e].venue_id # Str(obj_id)}
                            |-> events[k]]
            /\ resp' = IF ~Has(venues, obj_id)
                       THEN HTTPException(404, "Venue not found")
                       ELSE Ok([message |-> "Venue deleted"])
    /\ UNCHANGED <<attendees, bookings, event_posters, promo_videos,
                   venue_photos, next_oid, store_faulty, tasks>>

delete_venue(venue_id) ==
    LET obj_id == ObjectId(venue_id) IN
    /\ req = NoReq
    /\ req' = Request("delete_venue", venue_id, NoPayload)
    /\ IF obj_id = InvalidId
       THEN /\ resp' = HTTPException(400,
                                     "Invalid venue ID")
            /\ UNCHANGED venues
       ELSE /\ venues' = delete_one(venues, obj_id)
            /\ resp' = IF ~Has(venues, obj_id)  \* deleted_count == 0
                       THEN HTTPException(404,
                                          "Venue not found")
                       ELSE Ok([message |-> "Venue deleted"])
    /\ UNCHANGED <<events, attendees, bookings, event_posters, promo_videos,
                   venue_photos, next_oid, store_faulty, tasks>>

----------------------------------------------------------------------------
(* src/main.py: Attendee handlers *)

create_attendee(attendee) ==
    /\ req = NoReq
    /\ req' = Request("create_attendee", NoRid, attendee)
    /\ next_oid < MaxOids
    /\ \E inserted_id \in InsertedIds :
         IF inserted_id = NoId
         THEN /\ resp' = HTTPException(500,
                                       "Failed to create attendee")
              /\ UNCHANGED <<attendees, next_oid>>
         ELSE /\ attendees' = insert_one(attendees, attendee)
              /\ next_oid' = next_oid + 1
              /\ resp' = Ok([message |-> "Attendee created",
                             id |-> StrId(inserted_id)])
    /\ UNCHANGED <<events, venues, bookings, event_posters, promo_videos,
                   venue_photos, store_faulty, tasks>>

get_attendee(attendee_id) ==
    LET obj_id == ObjectId(attendee_id) IN
    /\ req = NoReq
    /\ req' = Request("get_attendee", attendee_id, NoPayload)
    /\ resp' = IF obj_id = InvalidId
               THEN HTTPException(400, "Invalid attendee ID")
               ELSE IF ~Has(attendees, obj_id)
               THEN HTTPException(404, "Attendee not found")
               ELSE Ok(Rendered(attendees, obj_id))
    /\ UNCHANGED <<colls, next_oid, store_faulty, tasks>>

update_attendee(attendee_id, attendee) ==
    LET obj_id == ObjectId(attendee_id) IN
    /\ req = NoReq
    /\ req' = Request("update_attendee", attendee_id, attendee)
    /\ IF obj_id = InvalidId
       THEN /\ resp' = HTTPException(400,
                                     "Invalid attendee ID")
            /\ UNCHANGED attendees
       ELSE /\ attendees' = update_one(attendees, obj_id, attendee)
            /\ resp' = IF ~Has(attendees, obj_id)  \* matched_count == 0
                       THEN HTTPException(404,
                                          "Attendee not found")
                       ELSE Ok([message |-> "Attendee updated"])
    /\ UNCHANGED <<events, venues, bookings, event_posters, promo_videos,
                   venue_photos, next_oid, store_faulty, tasks>>

delete_attendee(attendee_id) ==
    LET obj_id == ObjectId(attendee_id) IN
    /\ req = NoReq
    /\ req' = Request("delete_attendee", attendee_id, NoPayload)
    /\ IF obj_id = InvalidId
       THEN /\ resp' = HTTPException(400,
                                     "Invalid attendee ID")
            /\ UNCHANGED attendees
       ELSE /\ attendees' = delete_one(attendees, obj_id)
            /\ resp' = IF ~Has(attendees, obj_id)  \* deleted_count == 0
                       THEN HTTPException(404,
                                          "Attendee not found")
                       ELSE Ok([message |-> "Attendee deleted"])
    /\ UNCHANGED <<events, venues, bookings, event_posters, promo_videos,
                   venue_photos, next_oid, store_faulty, tasks>>

----------------------------------------------------------------------------
(* src/main.py: Booking handlers *)

\* booking_doc = booking.dict() with both references rendered by str
booking_doc(booking, event_obj_id, attendee_obj_id) ==
    [booking EXCEPT !.event_id = Str(event_obj_id),
                    !.attendee_id = Str(attendee_obj_id)]

create_booking(booking) ==
    LET ve == validate_object_id(booking.event_id, events, "Event")
        va == validate_object_id(booking.attendee_id, attendees, "Attendee")
    IN
    /\ req = NoReq
    /\ req' = Request("create_booking", NoRid, booking)
    /\ IF ve.raised
       THEN /\ resp' = HTTPException(ve.status, ve.detail)
            /\ UNCHANGED <<bookings, next_oid>>
       ELSE IF va.raised
       THEN /\ resp' = HTTPException(va.status, va.detail)
            /\ UNCHANGED <<bookings, next_oid>>
       ELSE /\ next_oid < MaxOids
            /\ \E inserted_id \in InsertedIds :
                 IF inserted_id = NoId
                 THEN /\ resp' = HTTPException(500,
                                               "Failed to create booking")
                      /\ UNCHANGED <<bookings, next_oid>>
                 ELSE /\ bookings' = insert_one(bookings,
                                 booking_doc(booking, ve.obj_id, va.obj_id))
                      /\ next_oid' = next_oid + 1
                      /\ resp' = Ok([message |-> "Booking created",
                                     id |-> StrId(inserted_id)])
    /\ UNCHANGED <<events, venues, attendees, event_posters, promo_videos,
                   venue_photos, store_faulty, tasks>>

get_booking(booking_id) ==
    LET obj_id == ObjectId(booking_id) IN
    /\ req = NoReq
    /\ req' = Request("get_booking", booking_id, NoPayload)
    /\ resp' = IF obj_id = InvalidId
               THEN HTTPException(400,
                                  "Invalid booking ID")
               ELSE IF ~Has(bookings, obj_id)
               THEN HTTPException(404,
                                  "Booking not found")
               ELSE Ok(Rendered(bookings, obj_id))
    /\ UNCHANGED <<colls, next_oid, store_faulty, tasks>>

\* update_doc = booking.dict() with both references rendered by str
booking_update_doc(booking, event_obj_id, attendee_obj_id) ==
    [booking EXCEPT !.event_id = Str(event_obj_id),
                    !.attendee_id = Str(attendee_obj_id)]

update_booking(booking_id, booking) ==
    LET booking_obj_id == ObjectId(booking_id)
        ve == validate_object_id(booking.event_id, events, "Event")
        va == validate_object_id(booking.attendee_id, attendees, "Attendee")
    IN
    /\ req = NoReq
    /\ req' = Request("update_booking", booking_id, booking)
    /\ IF booking_obj_id = InvalidId
       THEN /\ resp' = HTTPException(400,
                                     "Invalid booking ID")
            /\ UNCHANGED bookings
       ELSE IF ve.raised
       THEN /\ resp' = HTTPException(ve.status, ve.detail)
            /\ UNCHANGED bookings
       ELSE IF va.raised
       THEN /\ resp' = HTTPException(va.status, va.detail)
            /\ UNCHANGED bookings
       ELSE /\ bookings' = update_one(bookings, booking_obj_id,
                         booking_update_doc(booking, ve.obj_id, va.obj_id))
            /\ resp' = IF ~Has(bookings, booking_obj_id)  \* matched_count == 0
                       THEN HTTPException(404,
                                          "Booking not found")
                       ELSE Ok([message |-> "Booking updated"])
    /\ UNCHANGED <<events, venues, attendees, event_posters, promo_videos,
                   venue_photos, next_oid, store_faulty, tasks>>

delete_booking(booking_id) ==
    LET obj_id == ObjectId(booking_id) IN
    /\ req = NoReq
    /\ req' = Request("delete_booking", booking_id, NoPayload)
    /\ IF obj_id = InvalidId
       THEN /\ resp' = HTTPException(400,
                                     "Invalid booking ID")
            /\ UNCHANGED bookings
       ELSE /\ bookings' = delete_one(bookings, obj_id)
            /\ resp' = IF ~Has(bookings, obj_id)  \* deleted_count == 0
                       THEN HTTPException(404,
                                          "Booking not found")
                       ELSE Ok([message |-> "Booking deleted"])
    /\ UNCHANGED <<events, venues, attendees, event_posters, promo_videos,
                   venue_photos, next_oid, store_faulty, tasks>>

----------------------------------------------------------------------------
(* src/main.py: uploads.  The file is one fixed opaque blob. *)

MediaDoc(parent_field, parent_id) ==
    (parent_field :> parent_id) @@
    [filename |-> "poster.png", content_type |-> "image/png",
     content |-> "bytes", uploaded_at |-> "utcnow"]

upload_event_poster(event_id) ==
    LET v == validate_object_id(event_id, events, "Event") IN
    /\ req = NoReq
    /\ req' = Request("upload_event_poster", event_id, NoPayload)
    /\ IF v.raised
       THEN /\ resp' = HTTPException(v.status, v.detail)
            /\ UNCHANGED <<event_posters, next_oid>>
       ELSE /\ next_oid < MaxOids
            /\ \E inserted_id \in InsertedIds :
                 /\ IF inserted_id = NoId
                    THEN UNCHANGED <<event_posters, next_oid>>
                    ELSE /\ event_posters' =
                              insert_one(event_posters, MediaDoc("event_id", event_id))
                         /\ next_oid' = next_oid + 1
                 \* no check of result.inserted_id
                 /\ resp' = Ok([message |-> "Event poster uploaded",
                                id |-> StrId(inserted_id)])
    /\ UNCHANGED <<events, venues, attendees, bookings, promo_videos,
                   venue_photos, store_faulty, tasks>>

upload_promo_video(event_id) ==
    LET v == validate_object_id(event_id, events, "Event") IN
    /\ req = NoReq
    /\ req' = Request("upload_promo_video", event_id, NoPayload)
    /\ IF v.raised
       THEN /\ resp' = HTTPException(v.status, v.detail)
            /\ UNCHANGED <<promo_videos, next_oid>>
       ELSE /\ next_oid < MaxOids
            /\ \E inserted_id \in InsertedIds :
                 IF inserted_id = NoId
                 THEN /\ resp' = HTTPException(500,
                                               "Failed to upload promotional video")
                      /\ UNCHANGED <<promo_videos, next_oid>>
                 ELSE /\ promo_videos' =
                           insert_one(promo_videos, MediaDoc("event_id", event_id))
                      /\ next_oid' = next_oid + 1
                      /\ resp' = Ok([message |-> "Promotional video uploaded",
                                     id |-> StrId(inserted_id)])
    /\ UNCHANGED <<events, venues, attendees, bookings, event_posters,
                   venue_photos, store_faulty, tasks>>

upload_venue_photo(venue_id) ==
    LET v == validate_object_id(venue_id, venues, "Venue") IN
    /\ req = NoReq
    /\ req' = Request("upload_venue_photo", venue_id, NoPayload)
    /\ IF v.raised
       THEN /\ resp' = HTTPException(v.status, v.detail)
            /\ UNCHANGED <<venue_photos, next_oid>>
       ELSE /\ next_oid < MaxOids
            /\ \E inserted_id \in InsertedIds :
                 IF inserted_id = NoId
                 THEN /\ resp' = HTTPException(500,
                                               "Failed to upload venue photo")
                      /\ UNCHANGED <<venue_photos, next_oid>>
                 ELSE /\ venue_photos' =
                           insert_one(venue_photos, MediaDoc("venue_id", venue_id))
                      /\ next_oid' = next_oid + 1
                      /\ resp' = Ok([message |-> "Venue photo uploaded",
                                     id |-> StrId(inserted_id)])
    /\ UNCHANGED <<events, venues, attendees, bookings, event_posters,
                   promo_videos, store_faulty, tasks>>

----------------------------------------------------------------------------
(* The API of src/main.py, one request at a time *)

\* the response leaves; the next request may be taken
reply ==
    /\ req # NoReq
    /\ req' = NoReq
    /\ resp' = NoResp
    /\ UNCHANGED <<colls, next_oid, store_faulty, tasks>>

Init ==
    /\ events = Empty /\ venues = Empty /\ attendees = Empty /\ bookings = Empty
    /\ event_posters = Empty /\ promo_videos = Empty /\ venue_photos = Empty
    /\ next_oid = 0
    /\ store_faulty = FALSE
    /\ tasks = NoTasks
    /\ req = NoReq
    /\ resp = NoResp

Next ==
    \/ \E event \in EventPayloads : create_event(event)
    \/ \E event_id \in RawIds : get_event(event_id)
    \/ \E event_id \in RawIds, event \in EventPayloads : update_event(event_id, event)
    \/ \E event_id \in RawIds : delete_event(event_id)
    \/ \E venue \in VenuePayloads : create_venue(venue)
    \/ \E venue_id \in RawIds : get_venue(venue_id)
    \/ \E venue_id \in RawIds, venue \in VenuePayloads : update_venue(venue_id, venue)
    \/ \E venue_id \in RawIds : delete_venue(venue_id)
    \/ \E attendee \in AttendeePayloads : create_attendee(attendee)
    \/ \E attendee_id \in RawIds : get_attendee(attendee_id)
    \/ \E attendee_id \in RawIds, attendee \in AttendeePayloads :
         update_attendee(attendee_id, attendee)
    \/ \E attendee_id \in RawIds : delete_attendee(attendee_id)
    \/ \E booking \in BookingPayloads : create_booking(booking)
    \/ \E booking_id \in RawIds : get_booking(booking_id)
    \/ \E booking_id \in RawIds, booking \in BookingPayloads :
         update_booking(booking_id, booking)
    \/ \E booking_id \in RawIds : delete_booking(booking_id)
    \/ \E event_id \in RawIds : upload_event_poster(event_id)
    \/ \E event_id \in RawIds : upload_promo_video(event_id)
    \/ \E venue_id \in RawIds : upload_venue_photo(venue_id)
    \/ reply

Spec == Init /\ [][Next]_vars

\* the store may fail to assign an identifier on insert
InitFault ==
    /\ events = Empty /\ venues = Empty /\ attendees = Empty /\ bookings = Empty
    /\ event_posters = Empty /\ promo_videos = Empty /\ venue_photos = Empty
    /\ next_oid = 0
    /\ store_faulty = TRUE
    /\ tasks = NoTasks
    /\ req = NoReq
    /\ resp = NoResp

SpecFault == InitFault /\ [][Next]_vars

----------------------------------------------------------------------------
(* src/app/main.py: the earlier revision (events, venues, posters only) *)

\* an exception no handler catches: the server answers 500
Unhandled(exception) == [status |-> 500, body |-> [unhandled |-> exception]]

app_create_event(event) ==
    /\ req = NoReq
    /\ req' = Request("create_event", NoRid, event)
    /\ next_oid < MaxOids
    /\ events' = insert_one(events, event)
    /\ next_oid' = next_oid + 1
    /\ resp' = Ok([message |-> "Event created",
                   id |-> StrId(GenOid(next_oid + 1))])
    /\ UNCHANGED <<venues, attendees, bookings, event_posters, promo_videos,
                   venue_photos, store_faulty, tasks>>

app_get_event(event_id) ==
    LET obj_id == ObjectId(event_id) IN
    /\ req = NoReq
    /\ req' = Request("get_event", event_id, NoPayload)
    /\ resp' = IF obj_id = InvalidId
               THEN HTTPException(400, "Invalid event ID")
               ELSE IF ~Has(events, obj_id)
               THEN HTTPException(404, "Event not found")
               ELSE Ok(Rendered(events, obj_id))
    /\ UNCHANGED <<colls, next_oid, store_faulty, tasks>>

app_update_event(event_id, event) ==
    LET obj_id == ObjectId(event_id) IN
    /\ req = NoReq
    /\ req' = Request("update_event", event_id, event)
    /\ IF obj_id = InvalidId
       THEN /\ resp' = Unhandled("InvalidId")
            /\ UNCHANGED events
       ELSE /\ events' = update_one(events, obj_id, event)
            /\ resp' = IF ~Has(events, obj_id)  \* matched_count == 0
                       THEN HTTPException(404, "Event not found")
                       ELSE Ok([message |-> "Event updated"])
    /\ UNCHANGED <<venues, attendees, bookings, event_posters, promo_videos,
                   venue_photos, next_oid, store_faulty, tasks>>

app_delete_event(event_id) ==
    LET obj_id == ObjectId(event_id) IN
    /\ req = NoReq
    /\ req' = Request("delete_event", event_id, NoPayload)
    /\ IF obj_id = InvalidId
       THEN /\ resp' = Unhandled("InvalidId")
            /\ UNCHANGED events
       ELSE /\ events' = delete_one(events, obj_id)
            /\ resp' = IF ~Has(events, obj_id)  \* deleted_count == 0
                       THEN HTTPException(404, "Event not found")
                       ELSE Ok([message |-> "Event deleted"])
    /\ UNCHANGED <<venues, attendees, bookings, event_posters, promo_videos,
                   venue_photos, next_oid, store_faulty, tasks>>

app_upload_event_poster(event_id) ==
    /\ req = NoReq
    /\ req' = Request("upload_event_poster", event_id, NoPayload)
    /\ next_oid < MaxOids
    /\ event_posters' = insert_one(event_posters, MediaDoc("event_id", event_id))
    /\ next_oid' = next_oid + 1
    /\ resp' = Ok([message |-> "Event poster uploaded",
                   id |-> StrId(GenOid(next_oid + 1))])
    /\ UNCHANGED <<events, venues, attendees, bookings, promo_videos,
                   venue_photos, store_faulty, tasks>>

app_create_venues(venue) ==
    /\ req = NoReq
    /\ req' = Request("create_venues", NoRid, venue)
    /\ next_oid < MaxOids
    /\ venues' = insert_one(venues, venue)
    /\ next_oid' = next_oid + 1
    /\ resp' = Ok([message |-> "Venue created",
                   id |-> StrId(GenOid(next_oid + 1))])
    /\ UNCHANGED <<events, attendees, bookings, event_posters, promo_videos,
                   venue_photos, store_faulty, tasks>>

app_get_venue(venue_id) ==
    LET obj_id == ObjectId(venue_id) IN
    /\ req = NoReq
    /\ req' = Request("get_venue", venue_id, NoPayload)
    /\ resp' = IF obj_id = InvalidId
               THEN HTTPException(400, "Invalid venue ID")
               ELSE IF ~Has(venues, obj_id)
               THEN HTTPException(404, "Venue not found")
               ELSE Ok(Rendered(venues, obj_id))
    /\ UNCHANGED <<colls, next_oid, store_faulty, tasks>>

app_update_venue(venue_id, venue) ==
    LET obj_id == ObjectId(venue_id) IN
    /\ req = NoReq
    /\ req' = Request("update_venue", venue_id, venue)
    /\ IF obj_id = InvalidId
       THEN /\ resp' = Unhandled("InvalidId")
            /\ UNCHANGED venues
       ELSE /\ venues' = update_one(venues, obj_id, venue)
            /\ resp' = IF ~Has(venues, obj_id)  \* matched_count == 0
                       THEN HTTPException(404, "Venue not found")
                       ELSE Ok([message |-> "Venue updated"])
    /\ UNCHANGED <<events, attendees, bookings, event_posters, promo_videos,
                   venue_photos, next_oid, store_faulty, tasks>>

app_delete_venue(venue_id) ==
    LET obj_id == ObjectId(venue_id) IN
    /\ req = NoReq
    /\ req' = Request("delete_venue", venue_id, NoPayload)
    /\ IF obj_id = InvalidId
       THEN /\ resp' = Unhandled("InvalidId")
            /\ UNCHANGED venues
       ELSE /\ venues' = delete_one(venues, obj_id)
            /\ resp' = IF ~Has(venues, obj_id)  \* deleted_count == 0
                       THEN HTTPException(404, "Venue not found")
                       ELSE Ok([message |-> "Venue deleted"])
    /\ UNCHANGED <<events, attendees, bookings, event_posters, promo_videos,
                   venue_photos, next_oid, store_faulty, tasks>>

\* the earlier revision stores these identifier strings without reading them
OpaqueIds == {Str(GenOid(1)), <<"a","1">>}
AppEventPayloads == {event \in EventPayloads : event.venue_id \in OpaqueIds}

NextApp ==
    \/ \E event \in AppEventPayloads : app_create_event(event)
    \/ \E event_id \in RawIds : app_get_event(event_id)
    \/ \E event_id \in RawIds, event \in AppEventPayloads :
         app_update_event(event_id, event)
    \/ \E event_id \in RawIds : app_delete_event(event_id)
    \/ \E event_id \in OpaqueIds : app_upload_event_poster(event_id)
    \/ \E venue \in VenuePayloads : app_create_venues(venue)
    \/ \E venue_id \in RawIds : app_get_venue(venue_id)
    \/ \E venue_id \in RawIds, venue \in VenuePayloads :
         app_update_venue(venue_id, venue)
    \/ \E venue_id \in RawIds : app_delete_venue(venue_id)
    \/ reply

SpecApp == Init /\ [][NextApp]_vars

----------------------------------------------------------------------------
(* src/main.py with requests interleaved at their awaits.  A handler with  *)
(* references runs in steps: one per validate_object_id read, then the     *)
(* write.  Handlers with a single store call run in one step.              *)

IdleTask == [op |-> "idle", pc |-> "idle", obj_id |-> NoId, doc |-> NoPayload]

Task(op, pc, obj_id, doc) == [op |-> op, pc |-> pc, obj_id |-> obj_id, doc |-> doc]

\* create_event up to its insert: await validate_object_id(venue_id)
begin_create_event(t, event) ==
    LET v == validate_object_id(event.venue_id, venues, "Venue") IN
    /\ tasks[t] = IdleTask
    /\ tasks' = [tasks EXCEPT ![t] =
                   IF v.raised THEN IdleTask
                   ELSE Task("create_event", "write", NoId,
                             event_doc(event, v.obj_id))]
    /\ UNCHANGED <<colls, next_oid, store_faulty, req, resp>>

\* update_event up to its update: ObjectId(event_id), await validate_object_id
begin_update_event(t, event_id, event) ==
    LET event_obj_id == ObjectId(event_id)
        v == validate_object_id(event.venue_id, venues, "Venue")
    IN
    /\ tasks[t] = IdleTask
    /\ tasks' = [tasks EXCEPT ![t] =
                   IF event_obj_id = InvalidId \/ v.raised THEN IdleTask
                   ELSE Task("update_event", "write", event_obj_id,
                             event_update_doc(event, v.obj_id))]
    /\ UNCHANGED <<colls, next_oid, store_faulty, req, resp>>

\* await db.events.insert_one(event_doc) / await db.events.update_one(...)
write_event(t) ==
    /\ tasks[t].pc = "write"
    /\ tasks[t].op \in {"create_event", "update_event"}
    /\ IF tasks[t].op = "create_event"
       THEN /\ next_oid < MaxOids
            /\ events' = insert_one(events, tasks[t].doc)
            /\ next_oid' = next_oid + 1
       ELSE /\ events' = update_one(events, tasks[t].obj_id, tasks[t].doc)
            /\ UNCHANGED next_oid
    /\ tasks' = [tasks EXCEPT ![t] = IdleTask]
    /\ UNCHANGED <<venues, attendees, bookings, event_posters, promo_videos,
                   venue_photos, store_faulty, req, resp>>

\* create_booking up to its second read: await validate_object_id(event_id)
begin_create_booking(t, booking) ==
    LET ve == validate_object_id(booking.event_id, events, "Event") IN
    /\ tasks[t] = IdleTask
    /\ tasks' = [tasks EXCEPT ![t] =
                   IF ve.raised THEN IdleTask
                   ELSE Task("create_booking", "validate_attendee", NoId,
                             [booking EXCEPT !.event_id = Str(ve.obj_id)])]
    /\ UNCHANGED <<colls, next_oid, store_faulty, req, resp>>

\* update_booking up to its second read
begin_update_booking(t, booking_id, booking) ==
    LET booking_obj_id == ObjectId(booking_id)
        ve == validate_object_id(booking.event_id, events, "Event")
    IN
    /\ tasks[t] = IdleTask
    /\ tasks' = [tasks EXCEPT ![t] =
                   IF booking_obj_id = InvalidId \/ ve.raised THEN IdleTask
                   ELSE Task("update_booking", "validate_attendee",
                             booking_obj_id,
                             [booking EXCEPT !.event_id = Str(ve.obj_id)])]
    /\ UNCHANGED <<colls, next_oid, store_faulty, req, resp>>

\* await validate_object_id(attendee_id), then the document is built
validate_attendee(t) ==
    LET va == validate_object_id(tasks[t].doc.attendee_id, attendees, "Attendee") IN
    /\ tasks[t].pc = "validate_attendee"
    /\ tasks' = [tasks EXCEPT ![t] =
                   IF va.raised THEN IdleTask
                   ELSE Task(tasks[t].op, "write", tasks[t].obj_id,
                             [tasks[t].doc EXCEPT !.attendee_id = Str(va.obj_id)])]
    /\ UNCHANGED <<colls, next_oid, store_faulty, req, resp>>

\* await db.bookings.insert_one(booking_doc) / await db.bookings.update_one(...)
write_booking(t) ==
    /\ tasks[t].pc = "write"
    /\ tasks[t].op \in {"create_booking", "update_booking"}
    /\ IF tasks[t].op = "create_booking"
       THEN /\ next_oid < MaxOids
            /\ bookings' = insert_one(bookings, tasks[t].doc)
            /\ next_oid' = next_oid + 1
       ELSE /\ bookings' = update_one(bookings, tasks[t].obj_id, tasks[t].doc)
            /\ UNCHANGED next_oid
    /\ tasks' = [tasks EXCEPT ![t] = IdleTask]
    /\ UNCHANGED <<events, venues, attendees, event_posters, promo_videos,
                   venue_photos, store_faulty, req, resp>>

\* handlers with a single store call, run in one step
run_create_venue(venue) ==
    /\ next_oid < MaxOids
    /\ venues' = insert_one(venues, venue)
    /\ next_oid' = next_oid + 1
    /\ UNCHANGED <<events, attendees, bookings, event_posters, promo_videos,
                   venue_photos, store_faulty, tasks, req, resp>>

run_create_attendee(attendee) ==
    /\ next_oid < MaxOids
    /\ attendees' = insert_one(attendees, attendee)
    /\ next_oid' = next_oid + 1
    /\ UNCHANGED <<events, venues, bookings, event_posters, promo_videos,
                   venue_photos, store_faulty, tasks, req, resp>>

run_delete_venue(venue_id) ==
    /\ ObjectId(venue_id) # InvalidId
    /\ venues' = delete_one(venues, ObjectId(venue_id))
    /\ UNCHANGED <<events, attendees, bookings, event_posters, promo_videos,
                   venue_photos, next_oid, store_faulty, tasks, req, resp>>

run_delete_event(event_id) ==
    /\ ObjectId(event_id) # InvalidId
    /\ events' = delete_one(events, ObjectId(event_id))
    /\ UNCHANGED <<venues, attendees, bookings, event_posters, promo_videos,
                   venue_photos, next_oid, store_faulty, tasks, req, resp>>

run_delete_attendee(attendee_id) ==
    /\ ObjectId(attendee_id) # InvalidId
    /\ attendees' = delete_one(attendees, ObjectId(attendee_id))
    /\ UNCHANGED <<events, venues, bookings, event_posters, promo_videos,
                   venue_photos, next_oid, store_faulty, tasks, req, resp>>

InitConc ==
    /\ events = Empty /\ venues = Empty /\ attendees = Empty /\ bookings = Empty
    /\ event_posters = Empty /\ promo_videos = Empty /\ venue_photos = Empty
    /\ next_oid = 0
    /\ store_faulty = FALSE
    /\ tasks = [t \in 1..MaxTasks |-> IdleTask]
    /\ req = NoReq
    /\ resp = NoResp

\* requests of the interleaved specification: identifiers in canonical
\* spelling, one payload besides the references
ConcIds == {Str(GenOid(n)) : n \in 1..MaxOids}
ConcEvents == {event \in EventPayloads : event.venue_id \in ConcIds}
ConcBookings ==
    {booking \in BookingPayloads :
        booking.event_id \in ConcIds /\ booking.attendee_id \in ConcIds}
ConcVenues == {venue \in VenuePayloads : venue.name = "Hall A"}
ConcAttendees == {attendee \in AttendeePayloads : attendee.phone = None}

NextConc ==
    \/ \E t \in 1..MaxTasks, event \in ConcEvents : begin_create_event(t, event)
    \/ \E t \in 1..MaxTasks, event_id \in ConcIds, event \in ConcEvents :
         begin_update_event(t, event_id, event)
    \/ \E t \in 1..MaxTasks : write_event(t)
    \/ \E t \in 1..MaxTasks, booking \in ConcBookings :
         begin_create_booking(t, booking)
    \/ \E t \in 1..MaxTasks, booking_id \in ConcIds, booking \in ConcBookings :
         begin_update_booking(t, booking_id, booking)
    \/ \E t \in 1..MaxTasks : validate_attendee(t)
    \/ \E t \in 1..MaxTasks : write_booking(t)
    \/ \E venue \in ConcVenues : run_create_venue(venue)
    \/ \E venue_id \in ConcIds : run_delete_venue(venue_id)
    \/ \E attendee \in ConcAttendees : run_create_attendee(attendee)
    \/ \E attendee_id \in ConcIds : run_delete_attendee(attendee_id)
    \/ \E event_id \in ConcIds : run_delete_event(event_id)

SpecConc == InitConc /\ [][NextConc]_vars

----------------------------------------------------------------------------
(* Vocabulary of the properties *)

Kinds == {"event", "venue", "attendee", "booking"}

GetOp == [event |-> "get_event", venue |-> "get_venue",
          attendee |-> "get_attendee", booking |-> "get_booking"]
UpdateOp == [event |-> "update_event", venue |-> "update_venue",
             attendee |-> "update_attendee", booking |-> "update_booking"]
DeleteOp == [event |-> "delete_event", venue |-> "delete_venue",
             attendee |-> "delete_attendee", booking |-> "delete_booking"]
UploadOps == {"upload_event_poster", "upload_promo_video", "upload_venue_photo"}

\* the identifier syntax: 24 hexadecimal digits
MatchesIdSyntax(s) ==
    /\ Len(s) = 24
    /\ \A i \in 1..Len(s) :
         s[i] \in {"0","1","2","3","4","5","6","7","8","9",
                   "a","b","c","d","e","f","A","B","C","D","E","F"}

\* NotFound on the addressed resource: 404, "<Entity> not found"
NotFoundError ==
    [event |-> HTTPException(404, "Event not found"),
     venue |-> HTTPException(404, "Venue not found"),
     attendee |-> HTTPException(404, "Attendee not found"),
     booking |-> HTTPException(404, "Booking not found")]

\* MalformedId on the addressed resource: 400, "Invalid <entity> ID"
MalformedIdError ==
    [event |-> HTTPException(400, "Invalid event ID"),
     venue |-> HTTPException(400, "Invalid venue ID"),
     attendee |-> HTTPException(400, "Invalid attendee ID"),
     booking |-> HTTPException(400, "Invalid booking ID")]

\* ReferenceNotFound on a reference to name: 400, naming the entity
ReferenceErrors(name) ==
    {HTTPException(400, InvalidFormat(name)), HTTPException(400, NotFound(name))}

\* the string s is well-formed and names a document of the collection
Resolves(s, collection) == MatchesIdSyntax(s) /\ Has(collection, ObjectId(s))

\* the string s is well-formed and names no document of the collection
Absent(s, collection) == MatchesIdSyntax(s) /\ ~Has(collection, ObjectId(s))

\* every reference of an update payload resolves (Venue, Attendee: none)
ReferencesResolve(kind, payload) ==
    CASE kind = "event" -> Resolves(payload.venue_id, venues)
      [] kind = "booking" -> /\ Resolves(payload.event_id, events)
                             /\ Resolves(payload.attendee_id, attendees)
      [] OTHER -> TRUE

\* the canonical string form: the same digits in lower case
Canonical(s) ==
    [i \in 1..Len(s) |->
        CASE s[i] = "A" -> "a" [] s[i] = "B" -> "b" [] s[i] = "C" -> "c"
          [] s[i] = "D" -> "d" [] s[i] = "E" -> "e" [] s[i] = "F" -> "f"
          [] OTHER -> s[i]]

media == <<event_posters, promo_videos, venue_photos>>

Collection(kind) ==
    CASE kind = "event" -> events
      [] kind = "venue" -> venues
      [] kind = "attendee" -> attendees
      [] kind = "booking" -> bookings

----------------------------------------------------------------------------
(* C1 *)

\* C1 as stated: for every kind, get, update and delete of a well-formed
\* identifier that matches no document fail with NotFound, whatever the
\* update payload is.
C1_NotFoundWhateverPayload ==
    [][\A kind \in Kinds :
         (/\ req'.op \in {GetOp[kind], UpdateOp[kind], DeleteOp[kind]}
          /\ Absent(req'.id, Collection(kind)))
         => resp' = NotFoundError[kind]]_vars

\* C1 (amended): for every kind, get and delete of a well-formed identifier
\* that matches no document fail with NotFound, and so does update when every
\* reference of its payload resolves; an update whose payload holds a
\* reference that does not resolve fails with ReferenceNotFound (400) naming
\* the first such reference.  No collection changes in either case.
C1_NotFoundUnlessReferenceFails ==
    [][\A kind \in Kinds :
         (/\ req'.op \in {GetOp[kind], UpdateOp[kind], DeleteOp[kind]}
          /\ Absent(req'.id, Collection(kind)))
         => /\ UNCHANGED colls
            /\ IF req'.op = UpdateOp[kind] /\ ~ReferencesResolve(kind, req'.payload)
               THEN CASE kind = "event" -> resp' \in ReferenceErrors("Venue")
                      [] kind = "booking" ->
                           IF ~Resolves(req'.payload.event_id, events)
                           THEN resp' \in ReferenceErrors("Event")
                           ELSE resp' \in ReferenceErrors("Attendee")
               ELSE resp' = NotFoundError[kind]]_vars

\* an update of an absent booking, with references that resolve, answered 404
C1_Witness ==
    /\ req.op = "update_booking"
    /\ Absent(req.id, bookings)
    /\ ReferencesResolve("booking", req.payload)
    /\ resp = NotFoundError["booking"]

----------------------------------------------------------------------------
(* C2 *)

\* C2: for every kind, get, update (any payload) and delete of a string that
\* does not match the identifier syntax fail with MalformedId (400,
\* "Invalid <entity> ID"), and no collection changes.
C2_MalformedId ==
    [][\A kind \in Kinds :
         (/\ req'.op \in {GetOp[kind], UpdateOp[kind], DeleteOp[kind]}
          /\ ~MatchesIdSyntax(req'.id))
         => /\ resp' = MalformedIdError[kind]
            /\ UNCHANGED colls]_vars

\* an update of a malformed booking identifier whose payload also holds a
\* malformed reference, while documents exist
C2_Witness ==
    /\ req.op = "update_booking"
    /\ ~MatchesIdSyntax(req.id)
    /\ ~MatchesIdSyntax(req.payload.event_id)
    /\ resp = MalformedIdError["booking"]
    /\ DOMAIN events # {}

----------------------------------------------------------------------------
(* C3 *)

\* C3: create_event with a well-formed venue_id that matches no Venue fails
\* with ReferenceNotFound (400) and inserts nothing; with a venue_id that
\* matches a Venue it succeeds, inserts exactly one event, and the stored
\* venue_id is the canonical string form of that Venue's identifier.
C3_CreateEventReference ==
    [][req'.op = "create_event" =>
         LET venue_id == req'.payload.venue_id IN
         /\ Absent(venue_id, venues) =>
              /\ resp' = HTTPException(400, "Venue not found")
              /\ UNCHANGED colls
         /\ Resolves(venue_id, venues) =>
              /\ resp'.status = 200
              /\ UNCHANGED <<venues, attendees, bookings, media>>
              /\ \E k \in DOMAIN events' \ DOMAIN events :
                   /\ DOMAIN events' = DOMAIN events \cup {k}
                   /\ \A j \in DOMAIN events : events'[j] = events[j]
                   /\ resp'.body.id = Str(k)
                   /\ events'[k].venue_id = Canonical(venue_id)
                   /\ \E v \in DOMAIN venues : events'[k].venue_id = Str(v)]_vars

\* an event created from the upper-case spelling of a Venue's identifier
C3_Witness ==
    /\ req.op = "create_event"
    /\ req.payload.venue_id # Canonical(req.payload.venue_id)
    /\ resp.status = 200
    /\ \E k \in DOMAIN events :
         /\ resp.body.id = Str(k)
         /\ events[k].venue_id = Canonical(req.payload.venue_id)

----------------------------------------------------------------------------
(* C4 *)

\* C4: create_booking persists a booking only if event_id and attendee_id
\* both resolve; if event_id fails the error names "Event", if only
\* attendee_id fails it names "Attendee", and in both cases nothing changes.
C4_CreateBookingReferences ==
    [][req'.op = "create_booking" =>
         LET booking == req'.payload IN
         /\ bookings' # bookings =>
              /\ Resolves(booking.event_id, events)
              /\ Resolves(booking.attendee_id, attendees)
         /\ ~Resolves(booking.event_id, events) =>
              /\ resp' \in ReferenceErrors("Event")
              /\ UNCHANGED colls
         /\ (Resolves(booking.event_id, events)
               /\ ~Resolves(booking.attendee_id, attendees)) =>
              /\ resp' \in ReferenceErrors("Attendee")
              /\ UNCHANGED colls]_vars

\* a booking refused because only its attendee_id does not resolve
C4_Witness ==
    /\ req.op = "create_booking"
    /\ Resolves(req.payload.event_id, events)
    /\ Absent(req.payload.attendee_id, attendees)
    /\ DOMAIN attendees # {}
    /\ resp = HTTPException(400, "Attendee not found")

----------------------------------------------------------------------------
(* C7 *)

\* C7: a delete changes only its own collection: deleting a Venue leaves
\* events and bookings as they were, so that get of an event that references
\* it answers as before, with the same venue_id; deleting an Event or an
\* Attendee leaves the bookings that reference it as they were.
C7_DeleteDoesNotCascade ==
    [][/\ req'.op = "delete_venue" =>
            /\ UNCHANGED <<events, attendees, bookings, media>>
            /\ \A e \in RawIds : get_event_response(e)' = get_event_response(e)
       /\ req'.op = "delete_event" =>
            UNCHANGED <<venues, attendees, bookings, media>>
       /\ req'.op = "delete_attendee" =>
            UNCHANGED <<events, venues, bookings, media>>
       /\ req'.op = "delete_booking" =>
            UNCHANGED <<events, venues, attendees, media>>]_vars

\* a Venue was deleted while an event, itself booked, still references it
C7_Witness ==
    /\ req.op = "delete_venue"
    /\ resp = Ok([message |-> "Venue deleted"])
    /\ \E e \in DOMAIN events :
         /\ events[e].venue_id = Canonical(req.id)
         /\ get_event_response(Str(e)).status = 200
         /\ get_event_response(Str(e)).body.venue_id = Canonical(req.id)
         /\ \E b \in DOMAIN bookings : bookings[b].event_id = Str(e)

----------------------------------------------------------------------------
(* C8 *)

\* the document an update is to leave: the payload, references canonical
Replaced(kind, payload) ==
    CASE kind = "event" ->
           [payload EXCEPT !.venue_id = Canonical(payload.venue_id)]
      [] kind = "booking" ->
           [payload EXCEPT !.event_id = Canonical(payload.event_id),
                           !.attendee_id = Canonical(payload.attendee_id)]
      [] OTHER -> payload

\* C8: a request answered with an error (400 or 404) leaves every collection
\* as it was; an update that succeeds keeps the set of identifiers of its
\* collection, leaves the addressed document with every payload field at the
\* payload's value (references in canonical form), and changes nothing else.
C8_NoPartialApplication ==
    [][/\ resp'.status \in {400, 404} => UNCHANGED colls
       /\ \A kind \in Kinds :
            (req'.op = UpdateOp[kind] /\ resp'.status = 200) =>
              LET k == ObjectId(req'.id) IN
              /\ Has(Collection(kind), k)
              /\ DOMAIN Collection(kind)' = DOMAIN Collection(kind)
              /\ \A j \in DOMAIN Collection(kind) \ {k} :
                   Collection(kind)'[j] = Collection(kind)[j]
              /\ \A f \in DOMAIN req'.payload :
                   Collection(kind)'[k][f] = Replaced(kind, req'.payload)[f]
              /\ \A other \in Kinds \ {kind} :
                   Collection(other)' = Collection(other)
              /\ UNCHANGED media]_vars

\* a booking updated through the upper-case spelling of its attendee_id
C8_Witness ==
    /\ req.op = "update_booking"
    /\ resp.status = 200
    /\ req.payload.attendee_id # Canonical(req.payload.attendee_id)
    /\ bookings[ObjectId(req.id)].attendee_id = Canonical(req.payload.attendee_id)

----------------------------------------------------------------------------
(* C9 *)

\* C9: an upload whose parent identifier is malformed or matches no document
\* of the parent collection fails with ReferenceNotFound (400) and inserts
\* nothing; a media collection grows only by an upload whose parent exists.
C9_UploadNeedsParent ==
    [][/\ (req'.op \in {"upload_event_poster", "upload_promo_video"}
             /\ ~Resolves(req'.id, events)) =>
            /\ resp' \in ReferenceErrors("Event")
            /\ UNCHANGED colls
       /\ (req'.op = "upload_venue_photo" /\ ~Resolves(req'.id, venues)) =>
            /\ resp' \in ReferenceErrors("Venue")
            /\ UNCHANGED colls
       /\ event_posters' # event_posters =>
            req'.op = "upload_event_poster" /\ Resolves(req'.id, events)
       /\ promo_videos' # promo_videos =>
            req'.op = "upload_promo_video" /\ Resolves(req'.id, events)
       /\ venue_photos' # venue_photos =>
            req'.op = "upload_venue_photo" /\ Resolves(req'.id, venues)]_vars

\* a poster refused for an event that was deleted, after one was accepted
C9_Witness ==
    /\ req.op = "upload_event_poster"
    /\ Absent(req.id, events)
    /\ resp = HTTPException(400, "Event not found")
    /\ \E p \in DOMAIN event_posters : event_posters[p].event_id = req.id

----------------------------------------------------------------------------
(* C5 *)

\* C5: an upload whose parent exists and whose insert yields no identifier
\* (nothing is added to any media collection) fails with PersistenceFailure
\* (500).
C5_UploadWithoutIdentifierFails ==
    [][LET parent_exists ==
             \/ /\ req'.op \in {"upload_event_poster", "upload_promo_video"}
                /\ Resolves(req'.id, events)
             \/ /\ req'.op = "upload_venue_photo"
                /\ Resolves(req'.id, venues)
       IN (parent_exists /\ UNCHANGED media) => resp'.status = 500]_vars

----------------------------------------------------------------------------
(* C10 *)

\* C10: in the earlier revision, update and delete of an Event or a Venue
\* with an identifier that does not parse fail with MalformedId (400).
C10_AppMalformedId ==
    (/\ req.op \in {"update_event", "delete_event", "update_venue", "delete_venue"}
     /\ ~MatchesIdSyntax(req.id))
    => resp.status = 400

----------------------------------------------------------------------------
(* C6 *)

\* C6: at the step that writes an event document the Venue named by the
\* written venue_id exists, and at the step that writes a booking the Event
\* and the Attendee it names exist, also when requests interleave.
C6_ReferencesExistAtWrite ==
    [][/\ \A k \in DOMAIN events' :
            (k \notin DOMAIN events \/ events'[k] # events[k])
            => Resolves(events'[k].venue_id, venues)
       /\ \A k \in DOMAIN bookings' :
            (k \notin DOMAIN bookings \/ bookings'[k] # bookings[k])
            => /\ Resolves(bookings'[k].event_id, events)
               /\ Resolves(bookings'[k].attendee_id, attendees)]_vars

====
